---- MODULE Spec2Model ----
(***************************************************************************)
(* Lifecycle controller for bare-metal machines: the Actuator (Create,     *)
(* Exists, Update, Delete), the MachineReconciler that sequences it, and   *)
(* the provider-identity codec.                                            *)
(*                                                                         *)
(* Strings that the code formats or parses are sequences of one-character  *)
(* strings; a nil *string is the empty sequence.  A uuid.UUID is a number, *)
(* uuid.Parse / UUID.String convert between it and its text.               *)
(***************************************************************************)
EXTENDS Integers, Sequences, FiniteSets, TLC

\* ------------------------------------------------------------------ bounds

\* Number of instances the remote platform will create for the resource.
MaxInst == 2

\* Longest list of segments a text handed to ParseProviderID is joined from.
MaxSegments == 5

\* Largest UUID value handed to NewProviderID.
MaxUUID == 2

\* ------------------------------------------------------- program constants

RequeueAfterSeconds == 30

CreateRequeueSeconds == 10

MachineFinalizer == "machine.openshift.io/nvidia-bmm"

ProviderPrefix == <<"n","v","i","d","i","a","-","b","m","m",":","/","/">>

\* ----------------------------------------------------------------- strings

NoString == <<>>

Slash == <<"/">>

Digit(n) ==
  CASE n = 0 -> "0" [] n = 1 -> "1" [] n = 2 -> "2" [] n = 3 -> "3"
    [] n = 4 -> "4" [] n = 5 -> "5" [] n = 6 -> "6" [] n = 7 -> "7"
    [] n = 8 -> "8" [] OTHER -> "9"

DigitValue(c) ==
  CASE c = "0" -> 0 [] c = "1" -> 1 [] c = "2" -> 2 [] c = "3" -> 3
    [] c = "4" -> 4 [] c = "5" -> 5 [] c = "6" -> 6 [] c = "7" -> 7
    [] c = "8" -> 8 [] OTHER -> 9

Digits == {"0","1","2","3","4","5","6","7","8","9"}

\* uuid.UUID.String: the canonical (lower-case) text of a UUID.
UUIDString(n) == <<"u", Digit(n)>>

\* uuid.Parse accepts the canonical text and other spellings of the same
\* UUID (upper-case here); everything else is an error.
IsUUID(s) == Len(s) = 2 /\ s[1] \in {"u", "U"} /\ s[2] \in Digits

UUIDParse(s) == DigitValue(s[2])

\* strings.HasPrefix / strings.TrimPrefix
HasPrefix(s, p) == Len(s) >= Len(p) /\ SubSeq(s, 1, Len(p)) = p

TrimPrefix(s, p) == IF HasPrefix(s, p) THEN SubSeq(s, Len(p) + 1, Len(s)) ELSE s

\* ------------------------------------------------------ provider identity

\* providerid.NewProviderID
NewProviderID(orgName, tenantName, siteName, instanceID) ==
  [OrgName |-> orgName, TenantName |-> tenantName, SiteName |-> siteName,
   InstanceID |-> instanceID]

\* A String that leaves an empty tenant segment out.
ProviderIDStringShort(p) ==
  IF p.TenantName = NoString
    THEN ProviderPrefix \o p.OrgName \o Slash \o p.SiteName \o Slash
           \o UUIDString(p.InstanceID)
    ELSE ProviderPrefix \o p.OrgName \o Slash \o p.TenantName \o Slash
           \o p.SiteName \o Slash \o UUIDString(p.InstanceID)

\* (*ProviderID).String
ProviderIDString(p) ==
  ProviderPrefix \o p.OrgName \o Slash \o p.TenantName \o Slash
    \o p.SiteName \o Slash \o UUIDString(p.InstanceID)

\* strings.Split(s, "/"): the texts between the slashes, one more than there
\* are slashes.
RECURSIVE Split(_)
Split(s) ==
  IF s = <<>> THEN << <<>> >>
  ELSE IF Head(s) = "/" THEN << <<>> >> \o Split(Tail(s))
  ELSE LET r == Split(Tail(s)) IN << <<Head(s)>> \o Head(r) >> \o Tail(r)

\* ParseProviderID's nil *ProviderID.
NoProviderID == NewProviderID(NoString, NoString, NoString, 0)

\* What ParseProviderID returns: err = "" is a nil error.
Parsed(e, pid) == [err |-> e, pid |-> pid]

\* A legacy case that takes the second segment for the tenant.
ParseLegacyFormatAsTenant(parts) ==
  IF ~IsUUID(parts[3]) THEN Parsed("invalid instance ID", NoProviderID)
  ELSE Parsed("", NewProviderID(parts[1], parts[2], NoString, UUIDParse(parts[3])))

\* ParseProviderID, case 3: nvidia-bmm://org/site/instance-id
ParseLegacyFormat(parts) ==
  IF ~IsUUID(parts[3]) THEN Parsed("invalid instance ID", NoProviderID)
  ELSE Parsed("", NewProviderID(parts[1], NoString, parts[2], UUIDParse(parts[3])))

\* A four-segment case that reads site before tenant.
ParseNewFormatSiteFirst(parts) ==
  IF ~IsUUID(parts[4]) THEN Parsed("invalid instance ID", NoProviderID)
  ELSE Parsed("", NewProviderID(parts[1], parts[3], parts[2], UUIDParse(parts[4])))

\* ParseProviderID, case 4: nvidia-bmm://org/tenant/site/instance-id
ParseNewFormat(parts) ==
  IF ~IsUUID(parts[4]) THEN Parsed("invalid instance ID", NoProviderID)
  ELSE Parsed("", NewProviderID(parts[1], parts[2], parts[3], UUIDParse(parts[4])))

LegacyFormat(parts) == Len(parts) = 3

\* A switch that takes four segments or more for the new format.
NewFormatOrLonger(parts) == Len(parts) >= 4

NewFormat(parts) == Len(parts) = 4

\* providerid.ParseProviderID
ParseProviderID(providerIDStr) ==
  IF ~HasPrefix(providerIDStr, ProviderPrefix)
    THEN Parsed("invalid provider ID prefix", NoProviderID)
  ELSE
    LET parts == Split(TrimPrefix(providerIDStr, ProviderPrefix)) IN
    IF LegacyFormat(parts) THEN ParseLegacyFormat(parts)
    ELSE IF NewFormat(parts) THEN ParseNewFormat(parts)
    ELSE Parsed("invalid provider ID format, expected 3 or 4 segments", NoProviderID)

\* ------------------------------------------------------------ desired state

\* A valid identifier for each identifier field, and text that is no UUID.
TenantUUID == <<"u","7">>

VpcUUID == <<"u","8">>

SubnetUUID == <<"u","9">>

OtherUUID == <<"u","6">>

NotAUUID == <<"x">>

SiteText == <<"s">>

\* NvidiaBMMMachineProviderSpec as embedded at spec.providerSpec.value;
\* found = FALSE is a resource without that subtree.
BaseSpec ==
  [found |-> TRUE, SiteID |-> SiteText, TenantID |-> TenantUUID,
   VpcID |-> VpcUUID, SubnetID |-> SubnetUUID,
   AdditionalSubnetIDs |-> <<>>, InstanceTypeID |-> NoString,
   MachineID |-> NoString, SSHKeyGroupIDs |-> <<>>,
   AllowUnhealthyMachine |-> FALSE, UserData |-> NoString]

AdditionalSubnet(id, phys) == [SubnetID |-> id, IsPhysical |-> phys]

\* Desired states every identifier of which parses.
ValidSpecs ==
  { [BaseSpec EXCEPT !.TenantID = t, !.InstanceTypeID = it, !.MachineID = m,
                     !.AdditionalSubnetIDs = ad, !.SSHKeyGroupIDs = k] :
      t \in {TenantUUID, <<"U","7">>},
      it \in {NoString, OtherUUID},
      m \in {NoString, <<"m">>},
      ad \in {<<>>, <<AdditionalSubnet(OtherUUID, TRUE)>>,
              <<AdditionalSubnet(OtherUUID, TRUE), AdditionalSubnet(SubnetUUID, FALSE)>>},
      k \in {<<>>, <<OtherUUID>>} }

\* Desired states with one identifier that does not parse, or no subtree.
InvalidSpecs ==
  { [BaseSpec EXCEPT !.SubnetID = NotAUUID],
    [BaseSpec EXCEPT !.TenantID = NotAUUID],
    [BaseSpec EXCEPT !.VpcID = NotAUUID],
    [BaseSpec EXCEPT !.InstanceTypeID = NotAUUID],
    [BaseSpec EXCEPT !.AdditionalSubnetIDs = <<AdditionalSubnet(NotAUUID, FALSE)>>],
    [BaseSpec EXCEPT !.SSHKeyGroupIDs = <<OtherUUID, NotAUUID>>],
    [BaseSpec EXCEPT !.found = FALSE] }

\* The desired states the resource is declared with.
DeclaredSpecs ==
  { BaseSpec,
    [BaseSpec EXCEPT !.InstanceTypeID = OtherUUID, !.MachineID = <<"m">>,
                     !.SSHKeyGroupIDs = <<OtherUUID>>,
                     !.AdditionalSubnetIDs =
                       <<AdditionalSubnet(OtherUUID, TRUE), AdditionalSubnet(SubnetUUID, FALSE)>>] }
  \cup InvalidSpecs

\* ------------------------------------------------------------ the resource

\* NvidiaBMMMachineProviderStatus with nothing recorded.
EmptyStatus ==
  [InstanceID |-> NoString, MachineID |-> NoString,
   InstanceState |-> NoString, Addresses |-> <<>>]

\* The Machine document as the store holds it: the finalizer token, the
\* deletion timestamp, spec.providerSpec.value, spec.providerID and
\* status.providerStatus.
NewMachine(ps) ==
  [finalizer |-> FALSE, deletionRequested |-> FALSE, providerSpec |-> ps,
   providerID |-> NoString, providerStatus |-> EmptyStatus]

MachineName == "test-machine"

\* The Go type of the object handed to the Actuator.
Unstructured == "*unstructured.Unstructured"

TypedMachine == "*machinev1beta1.Machine"

\* Reconcile reads the resource into a typed machinev1beta1.Machine and hands
\* that object to the Actuator.
ReconcilerObjectKind == TypedMachine

\* ------------------------------------------------------------- the Actuator

\* main.go: NewActuator(client, recorder), no injected client.
ProductionActuator == [injected |-> FALSE, orgName |-> NoString, recorder |-> TRUE]

\* integration_test.go: NewActuatorWithClient(k8sClient, nil, mockClient, "test-org").
TestActuator == [injected |-> TRUE, orgName |-> <<"t">>, recorder |-> FALSE]

\* The credentials secret as the store answers for it.
SecretStates == {"missing", "noEndpoint", "noOrgName", "noToken", "badEndpoint", "ok"}

SecretOrgName == <<"o">>

\* Instance payloads of the remote platform (all but the id).
Payloads ==
  { [MachineId |-> NoString, Status |-> NoString, Interfaces |-> <<>>],
    [MachineId |-> <<"m">>, Status |-> <<"R">>,
     Interfaces |-> << <<"10.0.0.1">>, <<>>, <<"10.0.0.2", "10.0.0.3">> >>] }

Instance(id, p) ==
  [Id |-> id, MachineId |-> p.MachineId, Status |-> p.Status, Interfaces |-> p.Interfaces]

\* A response without JSON201 / JSON200.
NoInstance == [Id |-> 0, MachineId |-> NoString, Status |-> NoString, Interfaces |-> <<>>]

\* What the environment may answer: secret states, remote-call outcomes,
\* payloads, store-write outcomes and the reconciler's read of the resource.
AnyEnv ==
  [sec |-> SecretStates, get |-> {"err", "empty", "payload"},
   create |-> {"err", "empty", "payload"}, del |-> {"err", "204", "404", "500"},
   payloads |-> Payloads, write |-> BOOLEAN, fetch |-> {"ok", "error"}]

\* The environment of the liveness claims: credentials resolve, the remote
\* platform answers with payloads and deleted / not found, writes succeed.
GoodEnv ==
  [sec |-> {"ok"}, get |-> {"payload", "empty"}, create |-> {"payload"},
   del |-> {"204", "404"}, payloads |-> Payloads, write |-> {TRUE}, fetch |-> {"ok"}]

Write(what, ok) == [what |-> what, ok |-> ok]

\* What an Actuator operation returns and did: err = "" is a nil error.
Outcome(w, e, ex, remote, writes, events) ==
  [err |-> e, exists |-> ex, remote |-> remote, writes |-> writes, events |-> events,
   machine |-> w.machine, live |-> w.live, created |-> w.created, sec |-> w.sec]

Fail(w, e) == Outcome(w, e, FALSE, <<>>, <<>>, <<>>)

\* A remote call as issued and answered: out is the kind of the answer, inst
\* the instance it carried (NoInstance when it carried none).
RemoteCall(call, org, id, req, out, inst) ==
  [call |-> call, org |-> org, id |-> id, req |-> req, out |-> out, inst |-> inst]

NoRequest == [none |-> TRUE]

Event(a, reason) == IF a.recorder THEN <<reason>> ELSE <<>>

\* getProviderSpec: the object must be unstructured and carry
\* spec.providerSpec.value.
getProviderSpec(obj, kind) ==
  IF kind # Unstructured THEN [err |-> "machine is not unstructured", val |-> obj.providerSpec]
  ELSE IF ~obj.providerSpec.found THEN [err |-> "providerSpec.value not found", val |-> obj.providerSpec]
  ELSE [err |-> "", val |-> obj.providerSpec]

\* getProviderStatus: the object must be unstructured; a missing
\* status.providerStatus reads as the empty status.
getProviderStatus(obj, kind) ==
  IF kind # Unstructured THEN [err |-> "machine is not unstructured", val |-> EmptyStatus]
  ELSE [err |-> "", val |-> obj.providerStatus]

\* A getNvidiaBmmClient that does not require the secret's token field.
getNvidiaBmmClientWithoutToken(a, sec) ==
  IF a.injected THEN [err |-> "", org |-> a.orgName]
  ELSE IF sec = "missing" THEN [err |-> "failed to get credentials secret", org |-> NoString]
  ELSE IF sec = "noEndpoint" THEN [err |-> "secret is missing 'endpoint' field", org |-> NoString]
  ELSE IF sec = "noOrgName" THEN [err |-> "secret is missing 'orgName' field", org |-> NoString]
  ELSE IF sec = "badEndpoint" THEN [err |-> "failed to create NVIDIA BMM client", org |-> NoString]
  ELSE [err |-> "", org |-> SecretOrgName]

\* getNvidiaBmmClient: the injected client and org, or the secret's.
getNvidiaBmmClient(a, sec) ==
  IF a.injected THEN [err |-> "", org |-> a.orgName]
  ELSE IF sec = "missing" THEN [err |-> "failed to get credentials secret", org |-> NoString]
  ELSE IF sec = "noEndpoint" THEN [err |-> "secret is missing 'endpoint' field", org |-> NoString]
  ELSE IF sec = "noOrgName" THEN [err |-> "secret is missing 'orgName' field", org |-> NoString]
  ELSE IF sec = "noToken" THEN [err |-> "secret is missing 'token' field", org |-> NoString]
  ELSE IF sec = "badEndpoint" THEN [err |-> "failed to create NVIDIA BMM client", org |-> NoString]
  ELSE [err |-> "", org |-> SecretOrgName]

\* The secret states an operation may meet: none is read with an injected client.
SecretsRead(a, E) == IF a.injected THEN {""} ELSE E.sec

\* GetInstanceWithResponse as the remote platform may answer it: a transport
\* error, a response without payload, or the payload of a live instance.
GetResponses(w, id, E) ==
  { [err |-> TRUE, inst |-> NoInstance] : o \in E.get \cap {"err"} }
  \cup { [err |-> FALSE, inst |-> NoInstance] : o \in E.get \cap {"empty"} }
  \cup { [err |-> FALSE, inst |-> Instance(id, p)] :
           p \in IF "payload" \in E.get /\ id \in w.live THEN E.payloads ELSE {} }

ResponseKind(resp) ==
  IF resp.err THEN "err" ELSE IF resp.inst = NoInstance THEN "empty" ELSE "payload"

\* Exists returns resp.JSON200 != nil when the call returned no error.
ExistsFromResponse(resp) == IF resp.err THEN FALSE ELSE resp.inst # NoInstance

\* An Exists that returns the error of a failed get-instance call.
ExistsPropagatesError(resp) == IF resp.err THEN "failed to get instance" ELSE ""

\* Exists keeps a failed get-instance call to itself.
ExistsErrFromResponse(resp) == ""

\* An Exists that looks the instance up whatever is recorded.
ExistsNeverShortCircuits(status) == FALSE

\* Exists returns false, nil at once when no instance id is recorded.
ExistsShortCircuit(status) == status.InstanceID = NoString

\* (*Actuator).Exists
Exists(obj, kind, a, w, E) ==
  LET st == getProviderStatus(obj, kind) IN
  IF st.err # "" THEN {Fail(w, "failed to get provider status")}
  ELSE IF ExistsShortCircuit(st.val) THEN {Outcome(w, "", FALSE, <<>>, <<>>, <<>>)}
  ELSE
    LET ps == getProviderSpec(obj, kind) IN
    IF ps.err # "" THEN {Fail(w, "failed to get provider spec")}
    ELSE UNION {
      LET cl == getNvidiaBmmClient(a, sec)
        v == [w EXCEPT !.sec = sec]
    IN
      IF cl.err # "" THEN {Fail(v, "failed to create NVIDIA BMM client")}
      ELSE IF ~IsUUID(st.val.InstanceID) THEN {Fail(v, "failed to parse instance ID")}
      ELSE
        LET id == UUIDParse(st.val.InstanceID) IN
        { Outcome(v, ExistsErrFromResponse(resp), ExistsFromResponse(resp),
                  <<RemoteCall("get", cl.org, id, NoRequest, ResponseKind(resp), resp.inst)>>,
                  <<>>, <<>>) : resp \in GetResponses(v, id, E) }
      : sec \in SecretsRead(a, E) }

\* The address list of an instance: every address of every interface, in
\* order, tagged InternalIP.
RECURSIVE Addresses(_)
Addresses(interfaces) ==
  IF interfaces = <<>> THEN <<>>
  ELSE [i \in 1..Len(Head(interfaces)) |->
          [Type |-> "InternalIP", Address |-> Head(interfaces)[i]]]
       \o Addresses(Tail(interfaces))

\* A buildInstanceRequest whose first interface is physical.
PrimaryInterfacePhysical(ps) == [SubnetId |-> UUIDParse(ps.SubnetID), IsPhysical |-> TRUE]

\* buildInstanceRequest: the first interface is the primary subnet's, not
\* physical.
PrimaryInterface(ps) == [SubnetId |-> UUIDParse(ps.SubnetID), IsPhysical |-> FALSE]

\* A buildInstanceRequest that leaves the machine id out when an instance-type
\* id is given.
RequestMachineIdUnlessTyped(ps) ==
  IF ps.InstanceTypeID # NoString THEN NoString ELSE ps.MachineID

\* buildInstanceRequest sets the machine id when it is not empty.
RequestMachineId(ps) == ps.MachineID

\* A buildInstanceRequest that never reads the instance-type id.
InstanceTypeNeverGiven(ps) == FALSE

\* buildInstanceRequest parses the instance-type id when it is not empty.
InstanceTypeGiven(ps) == ps.InstanceTypeID # NoString

\* buildInstanceRequest: the create request of a desired state, or the first
\* identifier that does not parse.
buildInstanceRequest(name, ps) ==
  LET bad(e) == [err |-> e, req |-> NoRequest]
      adds == ps.AdditionalSubnetIDs
      keys == ps.SSHKeyGroupIDs
  IN
  IF ~IsUUID(ps.SubnetID) THEN bad("failed to parse subnet ID")
  ELSE IF \E i \in 1..Len(adds) : ~IsUUID(adds[i].SubnetID)
    THEN bad("failed to parse additional subnet ID")
  ELSE IF ~IsUUID(ps.TenantID) THEN bad("failed to parse tenant ID")
  ELSE IF ~IsUUID(ps.VpcID) THEN bad("failed to parse VPC ID")
  ELSE IF InstanceTypeGiven(ps) /\ ~IsUUID(ps.InstanceTypeID)
    THEN bad("failed to parse instance type ID")
  ELSE IF \E i \in 1..Len(keys) : ~IsUUID(keys[i])
    THEN bad("failed to parse SSH key group ID")
  ELSE
    [err |-> "",
     req |->
       [Name |-> name,
        TenantId |-> UUIDParse(ps.TenantID),
        VpcId |-> UUIDParse(ps.VpcID),
        Interfaces |->
          <<PrimaryInterface(ps)>>
          \o [i \in 1..Len(adds) |->
                [SubnetId |-> UUIDParse(adds[i].SubnetID),
                 IsPhysical |-> adds[i].IsPhysical]],
        PhoneHomeEnabled |-> TRUE,
        InstanceTypeId |->
          IF InstanceTypeGiven(ps) THEN <<UUIDParse(ps.InstanceTypeID)>> ELSE <<>>,
        MachineId |-> RequestMachineId(ps),
        AllowUnhealthyMachine |-> ps.AllowUnhealthyMachine,
        UserData |-> ps.UserData,
        SshKeyGroupIds |-> [i \in 1..Len(keys) |-> UUIDParse(keys[i])]]]

\* CreateInstanceWithResponse as the remote platform may answer it.  A payload
\* is a new instance, live from then on, with an id of its own.
CreateResponses(w, E) ==
  { [err |-> TRUE, inst |-> NoInstance] : o \in E.create \cap {"err"} }
  \cup { [err |-> FALSE, inst |-> NoInstance] : o \in E.create \cap {"empty"} }
  \cup { [err |-> FALSE, inst |-> Instance(w.created + 1, p)] :
           p \in IF "payload" \in E.create /\ w.created < MaxInst THEN E.payloads ELSE {} }

\* DeleteInstanceWithResponse as the remote platform may answer it: 204
\* removes the instance, 404 is the answer for an id that is not live.
DeleteResponses(w, id, E) ==
  { [err |-> TRUE, code |-> 0] : o \in E.del \cap {"err"} }
  \cup { [err |-> FALSE, code |-> 500] : o \in E.del \cap {"500"} }
  \cup { [err |-> FALSE, code |-> 204] : o \in E.del \cap {"204"} }
  \cup { [err |-> FALSE, code |-> 404] :
           o \in IF id \notin w.live THEN E.del \cap {"404"} ELSE {} }

\* A Create that records the addresses of the first interface only.
CreateStatusFirstInterface(inst) ==
  [InstanceID |-> UUIDString(inst.Id), MachineID |-> inst.MachineId,
   InstanceState |-> inst.Status,
   Addresses |-> IF inst.Interfaces = <<>> THEN <<>>
                 ELSE [i \in 1..Len(inst.Interfaces[1]) |->
                         [Type |-> "InternalIP", Address |-> inst.Interfaces[1][i]]]]

\* Create builds the observed state from the returned instance.
CreateStatus(inst) ==
  [InstanceID |-> UUIDString(inst.Id), MachineID |-> inst.MachineId,
   InstanceState |-> inst.Status, Addresses |-> Addresses(inst.Interfaces)]

\* A Create that hands site and tenant to NewProviderID in the other order.
CreateProviderIDSiteFirst(org, ps, inst) ==
  ProviderIDString(NewProviderID(org, ps.SiteID, ps.TenantID, inst.Id))

\* Create writes spec.providerID = NewProviderID(org, tenant, site, id).String().
CreateProviderID(org, ps, inst) ==
  ProviderIDString(NewProviderID(org, ps.TenantID, ps.SiteID, inst.Id))

\* A Create that issues the create call again when it failed.
CreateCallsRetried(org, req, resp) ==
  LET call == RemoteCall("create", org, 0, req, ResponseKind(resp), resp.inst) IN
  IF resp.err THEN <<call, call>> ELSE <<call>>

\* Create issues CreateInstanceWithResponse once.
CreateCalls(org, req, resp) ==
  <<RemoteCall("create", org, 0, req, ResponseKind(resp), resp.inst)>>

\* A Create that goes on to the identity write whatever the status write did.
StatusWriteFailureIgnored(ok) == FALSE

\* Create returns when setProviderStatus returned an error.
StatusWriteFailed(ok) == ~ok

\* A Create that goes on with a response that carries no instance.
CreateEmptyResponseAccepted(resp) == FALSE

\* Create treats a response without JSON201 as a failure.
CreateEmptyResponse(resp) == resp.inst = NoInstance

\* (*Actuator).Create
Create(obj, kind, a, w, E) ==
  LET ps == getProviderSpec(obj, kind) IN
  IF ps.err # "" THEN {Fail(w, "failed to get provider spec")}
  ELSE UNION {
    LET cl == getNvidiaBmmClient(a, sec)
        v == [w EXCEPT !.sec = sec]
        br == buildInstanceRequest(MachineName, ps.val)
    IN
    IF cl.err # "" THEN {Fail(v, "failed to create NVIDIA BMM client")}
    ELSE IF br.err # "" THEN {Fail(v, br.err)}
    ELSE UNION {
      LET call == CreateCalls(cl.org, br.req, resp) IN
      IF resp.err
        THEN {Outcome(v, "failed to create instance", FALSE, call, <<>>,
                      Event(a, "FailedCreate"))}
      ELSE IF CreateEmptyResponse(resp)
        THEN {Outcome(v, "create instance returned no data", FALSE, call, <<>>,
                      Event(a, "FailedCreate"))}
      ELSE
        LET inst == resp.inst
            w1 == [v EXCEPT !.live = @ \cup {inst.Id}, !.created = inst.Id]
            w2 == [w1 EXCEPT !.machine.providerStatus = CreateStatus(inst)]
            w3 == [w2 EXCEPT !.machine.providerID = CreateProviderID(cl.org, ps.val, inst)]
        IN
        UNION {
          IF StatusWriteFailed(okStatus)
            THEN {Outcome(w1, "failed to update provider status", FALSE, call,
                          <<Write("status", okStatus)>>, <<>>)}
          ELSE
            { IF ~okID
                THEN Outcome(w2, "failed to set provider ID", FALSE, call,
                             <<Write("status", okStatus),
                               Write("providerID", FALSE)>>, <<>>)
              ELSE Outcome(w3, "", FALSE, call,
                           <<Write("status", okStatus),
                             Write("providerID", TRUE)>>,
                           Event(a, "Created"))
              : okID \in E.write }
          : okStatus \in E.write }
      : resp \in CreateResponses(v, E) }
    : sec \in SecretsRead(a, E) }

\* An Update that adds the payload's addresses to those already recorded.
UpdateStatusMerging(st, inst) ==
  [st EXCEPT
     !.InstanceState = IF inst.Status # NoString THEN inst.Status ELSE @,
     !.MachineID = IF inst.MachineId # NoString THEN inst.MachineId ELSE @,
     !.Addresses = @ \o Addresses(inst.Interfaces)]

\* An Update that builds the observed state anew, from the payload alone.
UpdateStatusAnew(st, inst) ==
  [EmptyStatus EXCEPT
     !.InstanceState = inst.Status, !.MachineID = inst.MachineId,
     !.Addresses = Addresses(inst.Interfaces)]

\* Update rewrites the observed state from the fresh payload.
UpdateStatus(st, inst) ==
  [st EXCEPT
     !.InstanceState = IF inst.Status # NoString THEN inst.Status ELSE @,
     !.MachineID = IF inst.MachineId # NoString THEN inst.MachineId ELSE @,
     !.Addresses = Addresses(inst.Interfaces)]

\* An Update that goes on without a recorded instance id.
UpdateNeverNeedsInstance(status) == FALSE

\* Update fails when no instance id is recorded.
UpdateNeedsInstance(status) == status.InstanceID = NoString

\* (*Actuator).Update
Update(obj, kind, a, w, E) ==
  LET ps == getProviderSpec(obj, kind)
      st == getProviderStatus(obj, kind)
  IN
  IF ps.err # "" THEN {Fail(w, "failed to get provider spec")}
  ELSE IF st.err # "" THEN {Fail(w, "failed to get provider status")}
  ELSE IF UpdateNeedsInstance(st.val) THEN {Fail(w, "instance ID not set in provider status")}
  ELSE UNION {
    LET cl == getNvidiaBmmClient(a, sec)
        v == [w EXCEPT !.sec = sec]
    IN
    IF cl.err # "" THEN {Fail(v, "failed to create NVIDIA BMM client")}
    ELSE IF ~IsUUID(st.val.InstanceID) THEN {Fail(v, "failed to parse instance ID")}
    ELSE
      LET id == UUIDParse(st.val.InstanceID) IN
      UNION {
        LET call == <<RemoteCall("get", cl.org, id, NoRequest, ResponseKind(resp), resp.inst)>> IN
        IF resp.err THEN {Outcome(v, "failed to get instance", FALSE, call, <<>>, <<>>)}
        ELSE IF resp.inst = NoInstance
          THEN {Outcome(v, "get instance returned no data", FALSE, call, <<>>, <<>>)}
        ELSE
          { IF ok
              THEN Outcome([v EXCEPT !.machine.providerStatus = UpdateStatus(st.val, resp.inst)],
                           "", FALSE, call, <<Write("status", TRUE)>>, <<>>)
              ELSE Outcome(v, "failed to update provider status", FALSE, call,
                           <<Write("status", FALSE)>>, <<>>)
            : ok \in E.write }
        : resp \in GetResponses(v, id, E) }
    : sec \in SecretsRead(a, E) }

CodeText(code) == CASE code = 204 -> "204" [] code = 404 -> "404" [] OTHER -> "500"

\* A Delete that takes every response status for success.
DeleteStatusAlwaysOK(code) == TRUE

\* A Delete that takes only 204 for success.
DeleteStatusOKDeletedOnly(code) == code = 204

\* Delete succeeds on a response status of 204 or 404.
DeleteStatusOK(code) == code = 204 \/ code = 404

\* A Delete that clears the observed state once the instance is deleted.
DeletedMachineCleared(m) == [m EXCEPT !.providerStatus = EmptyStatus]

\* Delete calls neither setProviderStatus nor setProviderID, and does not
\* touch the finalizers: the resource after a Delete is the resource before it.
DeletedMachine(m) == m

\* (*Actuator).Delete
Delete(obj, kind, a, w, E) ==
  LET ps == getProviderSpec(obj, kind)
      st == getProviderStatus(obj, kind)
  IN
  IF ps.err # "" THEN {Fail(w, "failed to get provider spec")}
  ELSE IF st.err # "" THEN {Fail(w, "failed to get provider status")}
  ELSE IF st.val.InstanceID = NoString THEN {Outcome(w, "", FALSE, <<>>, <<>>, <<>>)}
  ELSE UNION {
    LET cl == getNvidiaBmmClient(a, sec)
        v == [w EXCEPT !.sec = sec]
    IN
    IF cl.err # "" THEN {Fail(v, "failed to create NVIDIA BMM client")}
    ELSE IF ~IsUUID(st.val.InstanceID) THEN {Fail(v, "failed to parse instance ID")}
    ELSE
      LET id == UUIDParse(st.val.InstanceID) IN
      { LET call == <<RemoteCall("delete", cl.org, id, NoRequest,
                                 IF resp.err THEN "err" ELSE CodeText(resp.code), NoInstance)>>
            w1 == IF ~resp.err /\ resp.code = 204 THEN [v EXCEPT !.live = @ \ {id}] ELSE v
        IN
        IF resp.err
          THEN Outcome(w1, "failed to delete instance", FALSE, call, <<>>,
                       Event(a, "FailedDelete"))
        ELSE IF ~DeleteStatusOK(resp.code)
          THEN Outcome(w1, "delete instance returned unexpected status", FALSE, call, <<>>,
                       Event(a, "FailedDelete"))
        ELSE Outcome([w1 EXCEPT !.machine = DeletedMachine(@)], "", FALSE, call, <<>>,
                     Event(a, "Deleted"))
        : resp \in DeleteResponses(v, id, E) }
    : sec \in SecretsRead(a, E) }

\* ---------------------------------------------------------- the reconciler

\* The world an operation starts from after another one returned.
WorldOf(o) == [machine |-> o.machine, live |-> o.live, created |-> o.created, sec |-> ""]

\* Two operations of one pass, in sequence.
Then(o1, o2) ==
  [o2 EXCEPT !.remote = o1.remote \o @, !.writes = o1.writes \o @,
             !.events = o1.events \o @, !.exists = o1.exists]

\* What a reconcile pass returns (ctrl.Result and error) and did: the Actuator
\* operations it called with the error each returned, the remote calls, the
\* store writes and the notifications.
Pass(o, calls, errs, e, requeue, after) ==
  [err |-> e, requeue |-> requeue, requeueAfter |-> after, calls |-> calls,
   errs |-> errs, exists |-> o.exists, remote |-> o.remote, writes |-> o.writes,
   events |-> o.events, machine |-> o.machine, present |-> TRUE, live |-> o.live,
   created |-> o.created, sec |-> o.sec]

\* The store removes a resource whose deletion is requested once it holds no
\* finalizer.
StoreKeeps(m) == ~(m.deletionRequested /\ ~m.finalizer)

\* A reconcileNormal that goes on whatever Exists returned.
ExistsFailureIgnored(e) == FALSE

\* reconcileNormal returns Exists' error.
ExistsFailed(e) == e.err # ""

\* A reconcileNormal that never attaches the finalizer.
NeedsFinalizerNever(obj) == FALSE

\* reconcileNormal attaches the finalizer when the resource does not hold it.
NeedsFinalizer(obj) == ~obj.finalizer

\* (*MachineReconciler).reconcileNormal
reconcileNormal(obj, w, E) ==
  IF NeedsFinalizer(obj) THEN
    { IF ok
        THEN Pass(Outcome([w EXCEPT !.machine.finalizer = TRUE], "", FALSE, <<>>,
                          <<Write("finalizer", TRUE)>>, <<>>),
                  <<>>, <<>>, "", TRUE, 0)
        ELSE Pass(Outcome(w, "", FALSE, <<>>, <<Write("finalizer", FALSE)>>, <<>>),
                  <<>>, <<>>, "failed to add finalizer", FALSE, 0)
      : ok \in E.write }
  ELSE UNION {
    IF ExistsFailed(e) THEN {Pass(e, <<"Exists">>, <<e.err>>, e.err, FALSE, RequeueAfterSeconds)}
    ELSE IF ~e.exists THEN
      { IF c.err # ""
          THEN Pass(Then(e, c), <<"Exists", "Create">>, <<e.err, c.err>>, c.err,
                    FALSE, RequeueAfterSeconds)
          ELSE Pass(Then(e, c), <<"Exists", "Create">>, <<e.err, c.err>>, "",
                    FALSE, CreateRequeueSeconds)
        : c \in Create(obj, ReconcilerObjectKind, ProductionActuator, WorldOf(e), E) }
    ELSE
      { IF u.err # ""
          THEN Pass(Then(e, u), <<"Exists", "Update">>, <<e.err, u.err>>, u.err,
                    FALSE, RequeueAfterSeconds)
          ELSE Pass(Then(e, u), <<"Exists", "Update">>, <<e.err, u.err>>, "",
                    FALSE, RequeueAfterSeconds)
        : u \in Update(obj, ReconcilerObjectKind, ProductionActuator, WorldOf(e), E) }
    : e \in Exists(obj, ReconcilerObjectKind, ProductionActuator, w, E) }

\* A reconcileDelete that goes on whatever Delete returned.
DeleteFailedIgnored(d) == FALSE

\* reconcileDelete returns Delete's error, and goes on to remove the
\* finalizer only when there is none.
DeleteFailed(d) == d.err # ""

\* (*MachineReconciler).reconcileDelete
reconcileDelete(obj, w, E) ==
  UNION {
    IF DeleteFailed(d) THEN {Pass(d, <<"Delete">>, <<d.err>>, d.err, FALSE, 0)}
    ELSE
      { IF ok
          THEN LET m == [d.machine EXCEPT !.finalizer = FALSE] IN
               [Pass([d EXCEPT !.machine = m, !.writes = @ \o <<Write("finalizer", TRUE)>>],
                     <<"Delete">>, <<d.err>>, "", FALSE, 0)
                  EXCEPT !.present = StoreKeeps(m)]
          ELSE Pass([d EXCEPT !.writes = @ \o <<Write("finalizer", FALSE)>>],
                    <<"Delete">>, <<d.err>>, "failed to remove finalizer", FALSE, 0)
        : ok \in E.write }
    : d \in Delete(obj, ReconcilerObjectKind, ProductionActuator, w, E) }

\* ---------------------------------------------------------------- the state

VARIABLES
  machine,   \* the resource as the store holds it
  present,   \* whether the store holds the resource
  live,      \* ids of the instances live on the remote platform
  created,   \* number of instances the remote platform created so far
  last       \* the last step: what ran, on what, what it did and returned

vars == <<machine, present, live, created, last>>

World == [machine |-> machine, live |-> live, created |-> created, sec |-> ""]

\* The record of a step: op is what ran, pre the resource it ran on, fetch the
\* reconciler's read of the resource, the rest what the step did and returned.
Step(op, a, fetch, pre, r) ==
  [op |-> op, injected |-> a.injected, recorder |-> a.recorder, fetch |-> fetch,
   pre |-> pre, err |-> r.err, exists |-> r.exists, requeue |-> r.requeue,
   requeueAfter |-> r.requeueAfter, calls |-> r.calls, errs |-> r.errs,
   remote |-> r.remote, writes |-> r.writes, events |-> r.events, sec |-> r.sec]

Idle(w) == Pass(Fail(w, ""), <<>>, <<>>, "", FALSE, 0)

InitWith(specs) ==
  /\ machine \in {NewMachine(ps) : ps \in specs}
  /\ present = TRUE
  /\ live = {}
  /\ created = 0
  /\ last = Step("none", TestActuator, "", machine, Idle(World))

Init == InitWith(DeclaredSpecs)

\* A Reconcile that returns an error for a resource that is not found.
NotFoundResultError(w) == [Idle(w) EXCEPT !.err = "failed to get machine"]

\* Reconcile returns ctrl.Result{}, nil for a resource that is not found.
NotFoundResult(w) == Idle(w)

\* A Reconcile that never takes the deletion branch.
DeletionNeverRequested(obj) == FALSE

\* Reconcile takes the deletion branch when the deletion timestamp is set.
DeletionRequested(obj) == obj.deletionRequested

\* (*MachineReconciler).Reconcile: one pass, in environment E.
ReconcileIn(E) ==
  \E f \in IF present THEN E.fetch ELSE {"notfound"} \cup (E.fetch \cap {"error"}) :
    \E r \in
        IF f = "notfound" THEN {NotFoundResult(World)}
        ELSE IF f = "error" THEN {[Idle(World) EXCEPT !.err = "failed to get machine"]}
        ELSE IF DeletionRequested(machine) THEN reconcileDelete(machine, World, E)
        ELSE reconcileNormal(machine, World, E) :
      /\ machine' = r.machine
      /\ present' = (present /\ r.present)
      /\ live' = r.live
      /\ created' = r.created
      /\ last' = Step("Reconcile", ProductionActuator, f, machine, r)

Reconcile == ReconcileIn(AnyEnv)

\* An Actuator operation called on the stored resource, read as an
\* unstructured document, as the integration tests call it.
Called(op, a, outcomes) ==
  /\ present
  /\ \E o \in outcomes :
       /\ machine' = o.machine
       /\ live' = o.live
       /\ created' = o.created
       /\ last' = Step(op, a, "", machine, Pass(o, <<op>>, <<o.err>>, o.err, FALSE, 0))
       /\ UNCHANGED present

Actuators == {ProductionActuator, TestActuator}

ActuatorCreate ==
  \E a \in Actuators : Called("Create", a, Create(machine, Unstructured, a, World, AnyEnv))

ActuatorExists ==
  \E a \in Actuators : Called("Exists", a, Exists(machine, Unstructured, a, World, AnyEnv))

ActuatorUpdate ==
  \E a \in Actuators : Called("Update", a, Update(machine, Unstructured, a, World, AnyEnv))

ActuatorDelete ==
  \E a \in Actuators : Called("Delete", a, Delete(machine, Unstructured, a, World, AnyEnv))

\* The deletion request of the resource: the store sets the deletion timestamp
\* when a finalizer holds the resource and removes the resource otherwise.
RequestDeletion ==
  /\ present
  /\ ~machine.deletionRequested
  /\ machine' = [machine EXCEPT !.deletionRequested = TRUE]
  /\ present' = StoreKeeps(machine')
  /\ last' = Step("RequestDeletion", TestActuator, "", machine, Idle(World))
  /\ UNCHANGED <<live, created>>

Next ==
  \/ Reconcile
  \/ ActuatorCreate
  \/ ActuatorExists
  \/ ActuatorUpdate
  \/ ActuatorDelete
  \/ RequestDeletion

Spec == Init /\ [][Next]_vars

\* The reconciler re-invoked by the runtime on a resource with a valid desired
\* state, in an environment where credentials resolve, remote calls are
\* answered and store writes succeed.
ReconcileGood == ReconcileIn(GoodEnv)

LiveInit == InitWith(ValidSpecs)

LiveNext ==
  \/ ReconcileGood
  \/ RequestDeletion

SpecLive == LiveInit /\ [][LiveNext]_vars /\ WF_vars(ReconcileGood)

\* --------------------------------------------- the provider-identity codec

\* Organization, tenant and site names handed to NewProviderID.
CodecNames == {NoString, <<"a">>, <<"a", "/">>, <<"u", "1">>}

CodecUUIDs == 0..MaxUUID

\* Texts handed to ParseProviderID: a prefix, then segments joined by "/".
CodecPrefixes == {ProviderPrefix, <<"n","v","i","d","i","a",":","/","/">>, NoString}

CodecSegments == {NoString, <<"a">>, <<"u", "1">>, <<"U", "2">>}

RECURSIVE Join(_)
Join(segs) ==
  IF Len(segs) = 1 THEN segs[1] ELSE segs[1] \o Slash \o Join(Tail(segs))

CodecTexts ==
  { pre \o Join(segs) :
      pre \in CodecPrefixes,
      segs \in UNION { [1..n -> CodecSegments] : n \in 1..MaxSegments } }

\* The record of a codec step: the text encoded to or decoded from, the
\* identity encoded or decoded, where the input came from, the identity the
\* text was encoded from (prev), and whether that identity was decoded from a
\* three-segment text.
CodecStep(op, text, r, from, prev, legacy) ==
  [op |-> op, text |-> text, err |-> r.err, pid |-> r.pid, from |-> from,
   prev |-> prev, legacy |-> legacy]

CodecInit ==
  /\ machine = NewMachine(BaseSpec)
  /\ present = TRUE
  /\ live = {}
  /\ created = 0
  /\ last = CodecStep("none", NoString, Parsed("", NoProviderID), "", NoProviderID, FALSE)

\* A run starts from a tuple: NewProviderID(...).String()
CodecEncode ==
  /\ last.op = "none"
  /\ \E o \in CodecNames, t \in CodecNames, n \in CodecNames, i \in CodecUUIDs :
       LET pid == NewProviderID(o, t, n, i) IN
       last' = CodecStep("encode", ProviderIDString(pid), Parsed("", pid), "tuple",
                         NoProviderID, FALSE)
  /\ UNCHANGED <<machine, present, live, created>>

\* or from a text: ParseProviderID of a given text.
CodecDecode ==
  /\ last.op = "none"
  /\ \E text \in CodecTexts :
       last' = CodecStep("decode", text, ParseProviderID(text), "text", NoProviderID, FALSE)
  /\ UNCHANGED <<machine, present, live, created>>

\* String() of an identity ParseProviderID returned.
CodecReencode ==
  /\ last.op = "decode" /\ last.err = ""
  /\ last' = CodecStep("encode", ProviderIDString(last.pid), Parsed("", last.pid), "decoded",
                       last.pid,
                       LegacyFormat(Split(TrimPrefix(last.text, ProviderPrefix))))
  /\ UNCHANGED <<machine, present, live, created>>

\* ParseProviderID(pid.String())
CodecDecodeEncoded ==
  /\ last.op = "encode"
  /\ last' = CodecStep("decode", last.text, ParseProviderID(last.text), "encoded",
                       last.pid, last.legacy)
  /\ UNCHANGED <<machine, present, live, created>>

CodecNext ==
  \/ CodecEncode
  \/ CodecDecode
  \/ CodecReencode
  \/ CodecDecodeEncoded

SpecCodec == CodecInit /\ [][CodecNext]_vars

\* ------------------------------------------------------------------ claims

\* A reconcile pass that read the resource.
PassOn == last.op = "Reconcile" /\ last.fetch = "ok"

DeletePass == PassOn /\ last.pre.deletionRequested

NormalPass == PassOn /\ ~last.pre.deletionRequested

RecordedID(m) == m.providerStatus.InstanceID

\* C2: a pass on a resource whose deletion is requested calls Delete and
\* nothing else; the finalizer is removed only when Delete returned no error;
\* when Delete returns an error the pass returns that error and the resource,
\* finalizer included, is as it was.
C2_DeletePassGuardsFinalizer ==
  DeletePass =>
    /\ last.calls = <<"Delete">>
    /\ (~present \/ ~machine.finalizer) => last.errs[1] = ""
    /\ last.errs[1] # "" =>
         /\ last.err = last.errs[1]
         /\ present /\ machine.finalizer /\ machine = last.pre

C2_Witness ==
  /\ DeletePass
  /\ last.calls = <<"Delete">>
  /\ last.errs[1] # ""
  /\ machine.finalizer

\* C3: a pass on a present resource without deletion request and without
\* finalizer calls no Actuator operation and issues no remote call; it writes
\* the resource once, with the finalizer, and when that write succeeds the
\* finalizer is stored and immediate re-invocation is requested (when it fails
\* the pass returns an error and the resource is as it was).  No pass issues a
\* remote create call for a resource that does not hold the finalizer.
C3_FinalizerBeforeAnyCall ==
  /\ (NormalPass /\ ~last.pre.finalizer) =>
       /\ last.calls = <<>> /\ last.remote = <<>>
       /\ Len(last.writes) = 1 /\ last.writes[1].what = "finalizer"
       /\ last.writes[1].ok =>
            /\ machine = [last.pre EXCEPT !.finalizer = TRUE]
            /\ last.err = "" /\ last.requeue /\ last.requeueAfter = 0
       /\ ~last.writes[1].ok => (last.err # "" /\ machine = last.pre)
  /\ (last.op = "Reconcile" /\ \E i \in 1..Len(last.remote) : last.remote[i].call = "create")
       => last.pre.finalizer

C3_Witness ==
  /\ NormalPass /\ ~last.pre.finalizer
  /\ machine.finalizer /\ last.requeue /\ last.calls = <<>>

\* C4: a pass on a present resource with the finalizer and no deletion request
\* calls Exists; when Exists returns false it calls Create and not Update, and
\* on success asks for re-invocation after 10 s; when Exists returns true it
\* calls Update and not Create, and on success asks for it after 30 s.
C4_NormalPassCreatesOrUpdates ==
  (NormalPass /\ last.pre.finalizer) =>
    /\ last.calls # <<>> /\ last.calls[1] = "Exists"
    /\ ~last.exists =>
         /\ last.calls = <<"Exists", "Create">>
         /\ last.err = "" => last.requeueAfter = CreateRequeueSeconds
    /\ last.exists =>
         /\ last.calls = <<"Exists", "Update">>
         /\ last.err = "" => last.requeueAfter = RequeueAfterSeconds

\* C5: with the reconciler re-invoked, a valid desired state and a helpful
\* environment, a resource whose deletion is not requested eventually has
\* status.providerStatus.instanceId and spec.providerID recorded.
C5_ProvisioningLiveness ==
  <>( \/ ~present
      \/ machine.deletionRequested
      \/ (RecordedID(machine) # NoString /\ machine.providerID # NoString) )

\* C6: with the reconciler re-invoked and a helpful environment, a resource
\* whose deletion is requested eventually loses the finalizer.
C6_DeletionLiveness ==
  (present /\ machine.deletionRequested) ~> (~present \/ ~machine.finalizer)

\* C8: once spec.providerID is written, no step changes it.
C8_ProviderIDWriteOnce ==
  last.pre.providerID # NoString => machine.providerID = last.pre.providerID

\* C9: Exists on a resource with no recorded instance id returns false and no
\* error, and issues no remote call.
C9_ExistsWithoutInstanceID ==
  (last.op = "Exists" /\ RecordedID(last.pre) = NoString) =>
    (~last.exists /\ last.err = "" /\ last.remote = <<>>)

C9_Witness ==
  /\ last.op = "Exists" /\ RecordedID(last.pre) = NoString
  /\ ~last.exists /\ last.err = ""

\* Credentials resolved: an injected client, or a complete secret.
CredentialsResolved == last.injected \/ last.sec = "ok"

\* C10: Exists on a resource with a recorded instance id issues, once the
\* credentials resolved, one get-instance call keyed by that id and no other
\* call; an error of that call gives false and no error; otherwise Exists
\* returns no error, and true exactly when the response carries a payload.
C10_ExistsWithInstanceID ==
  (last.op = "Exists" /\ RecordedID(last.pre) # NoString) =>
    /\ Len(last.remote) <= 1
    /\ CredentialsResolved => Len(last.remote) = 1
    /\ last.remote = <<>> => (last.err # "" /\ ~last.exists)
    /\ last.remote # <<>> =>
         /\ last.remote[1].call = "get"
         /\ UUIDString(last.remote[1].id) = RecordedID(last.pre)
         /\ last.err = ""
         /\ last.remote[1].out = "err" => ~last.exists
         /\ last.remote[1].out # "err" => (last.exists <=> last.remote[1].out = "payload")
    /\ machine = last.pre

C10_Witness ==
  /\ last.op = "Exists" /\ RecordedID(last.pre) # NoString
  /\ last.remote # <<>> /\ last.remote[1].out = "err"
  /\ ~last.exists /\ last.err = ""

\* The organization credentials resolution yields for the last step's Actuator.
ResolvedOrg == IF last.injected THEN TestActuator.orgName ELSE SecretOrgName

\* The Actuator of the last step.
LastActuator == IF last.injected THEN TestActuator ELSE ProductionActuator

CreateSucceeded == last.op = "Create" /\ last.err = ""

\* C11: after a successful Create, status.providerStatus.instanceId is the
\* non-empty id of the instance the create call returned, and spec.providerID
\* is nvidia-bmm://<org>/<tenantId>/<siteId>/<instanceId>, org from credentials
\* resolution, tenantId and siteId from the desired state, instanceId the
\* recorded one.
C11_CreateRecordsIdentity ==
  CreateSucceeded =>
    /\ Len(last.remote) = 1
    /\ last.remote[1].call = "create" /\ last.remote[1].out = "payload"
    /\ last.remote[1].org = ResolvedOrg
    /\ created \in live
    /\ RecordedID(machine) # NoString
    /\ RecordedID(machine) = UUIDString(created)
    /\ machine.providerID =
         ProviderPrefix \o ResolvedOrg \o Slash \o last.pre.providerSpec.TenantID
           \o Slash \o last.pre.providerSpec.SiteID \o Slash \o RecordedID(machine)

C11_Witness ==
  /\ CreateSucceeded /\ ~last.injected
  /\ machine.providerID # NoString /\ RecordedID(machine) # NoString

\* C12: when the create call fails or answers without an instance, Create
\* returns an error, writes neither status nor identity (the resource is as it
\* was) and has issued that one call only.
C12_CreateFailureWritesNothing ==
  (last.op = "Create" /\ last.remote # <<>> /\ last.remote[1].out \in {"err", "empty"}) =>
    /\ last.err # ""
    /\ last.writes = <<>>
    /\ machine = last.pre
    /\ Len(last.remote) = 1 /\ last.remote[1].call = "create"

C12_Witness ==
  /\ last.op = "Create" /\ last.remote # <<>> /\ last.remote[1].out = "empty"
  /\ last.err = "create instance returned no data"

\* An identifier of the desired state that is no UUID.
BadIdentifier(ps) ==
  \/ ~IsUUID(ps.SubnetID)
  \/ \E i \in 1..Len(ps.AdditionalSubnetIDs) : ~IsUUID(ps.AdditionalSubnetIDs[i].SubnetID)
  \/ ~IsUUID(ps.TenantID)
  \/ ~IsUUID(ps.VpcID)
  \/ (ps.InstanceTypeID # NoString /\ ~IsUUID(ps.InstanceTypeID))
  \/ \E i \in 1..Len(ps.SSHKeyGroupIDs) : ~IsUUID(ps.SSHKeyGroupIDs[i])

IdentifierParseErrors ==
  {"failed to parse subnet ID", "failed to parse additional subnet ID",
   "failed to parse tenant ID", "failed to parse VPC ID",
   "failed to parse instance type ID", "failed to parse SSH key group ID"}

\* C13: with resolvable credentials, a desired state with an identifier that is
\* no UUID makes Create fail with an identifier-parse error, with no remote
\* call and the resource as it was.
C13_CreateRejectsBadIdentifier ==
  ( /\ last.op = "Create" /\ last.pre.providerSpec.found
    /\ CredentialsResolved /\ BadIdentifier(last.pre.providerSpec) ) =>
    /\ last.err \in IdentifierParseErrors
    /\ last.remote = <<>> /\ last.writes = <<>>
    /\ machine = last.pre

C13_Witness ==
  /\ last.op = "Create" /\ CredentialsResolved
  /\ last.pre.providerSpec.found /\ last.pre.providerSpec.InstanceTypeID = NotAUUID
  /\ last.err = "failed to parse instance type ID" /\ last.remote = <<>>

\* C14: without an injected client, Create fails with a credentials error and
\* issues no remote call when the secret is missing or lacks endpoint, orgName
\* or token.
C14_CreateNeedsCredentials ==
  ( /\ last.op = "Create" /\ ~last.injected
    /\ last.sec \in {"missing", "noEndpoint", "noOrgName", "noToken"} ) =>
    /\ last.err = "failed to create NVIDIA BMM client"
    /\ last.remote = <<>> /\ last.writes = <<>>
    /\ machine = last.pre

C14_Witness ==
  /\ last.op = "Create" /\ ~last.injected /\ last.sec = "noToken"
  /\ last.err = "failed to create NVIDIA BMM client" /\ last.remote = <<>>

\* C15: Delete on a resource with no recorded instance id returns no error and
\* issues no remote call, and leaves the resource as it was (so that a second
\* call is the same no-op).
C15_DeleteWithoutInstanceID ==
  (last.op = "Delete" /\ RecordedID(last.pre) = NoString) =>
    (last.err = "" /\ last.remote = <<>> /\ machine = last.pre)

\* C16: Delete on a resource with a recorded instance id issues, once the
\* credentials resolved, one delete-instance call keyed by that id and no other
\* call; it returns no error exactly when that call returned without transport
\* error and with status 204 or 404.
C16_DeleteWithInstanceID ==
  (last.op = "Delete" /\ RecordedID(last.pre) # NoString) =>
    /\ Len(last.remote) <= 1
    /\ CredentialsResolved => Len(last.remote) = 1
    /\ last.remote # <<>> =>
         /\ last.remote[1].call = "delete"
         /\ UUIDString(last.remote[1].id) = RecordedID(last.pre)
    /\ last.err = "" <=> (last.remote # <<>> /\ last.remote[1].out \in {"204", "404"})

C16_Witness ==
  /\ last.op = "Delete" /\ RecordedID(last.pre) # NoString
  /\ last.remote # <<>> /\ last.remote[1].out = "500" /\ last.err # ""

DeleteSucceeded ==
  last.op = "Delete" /\ last.err = "" /\ RecordedID(last.pre) # NoString

\* C17: once Delete has succeeded on a provisioned resource, every Delete
\* called on it next, with the remote platform answering 204 or 404, returns no
\* error and leaves the resource as the first call left it.
C17_DeleteIdempotent ==
  DeleteSucceeded =>
    /\ machine = last.pre
    /\ \A o \in Delete(machine, Unstructured, LastActuator, World, GoodEnv) :
         o.err = "" /\ o.machine = machine

\* A Delete answered 404: the instance was deleted by a Delete before this one.
C17_Witness ==
  /\ DeleteSucceeded
  /\ last.remote # <<>> /\ last.remote[1].out = "404"

\* C18: Delete, with or without error, leaves the resource (observed state,
\* spec.providerID and finalizer included) as it was and writes nothing; a step
\* that removes the finalizer is a reconcile pass whose Delete returned no
\* error.
C18_DeleteLeavesResource ==
  /\ last.op = "Delete" => (machine = last.pre /\ last.writes = <<>> /\ present)
  /\ (last.pre.finalizer /\ ~machine.finalizer) =>
       (last.op = "Reconcile" /\ last.calls = <<"Delete">> /\ last.errs[1] = "")

C18_Witness ==
  /\ last.op = "Delete" /\ last.err = "" /\ last.remote # <<>>
  /\ machine.finalizer
  /\ RecordedID(machine) # NoString /\ machine.providerID # NoString

\* C19: Update on a resource with no recorded instance id returns an error
\* (that of the missing instance id when the desired state is readable), issues
\* no remote call and leaves the resource as it was.
C19_UpdateWithoutInstanceID ==
  (last.op = "Update" /\ RecordedID(last.pre) = NoString) =>
    /\ last.err # ""
    /\ last.pre.providerSpec.found => last.err = "instance ID not set in provider status"
    /\ last.remote = <<>> /\ last.writes = <<>>
    /\ machine = last.pre

C19_Witness ==
  /\ last.op = "Update" /\ RecordedID(last.pre) = NoString
  /\ last.err = "instance ID not set in provider status"

\* C20: Update issues no remote call but at most one get-instance call, and
\* after it, successful or not, status.providerStatus.instanceId and
\* spec.providerID are what they were.
C20_UpdateIsReadRefresh ==
  last.op = "Update" =>
    /\ Len(last.remote) <= 1
    /\ \A i \in 1..Len(last.remote) : last.remote[i].call = "get"
    /\ RecordedID(machine) = RecordedID(last.pre)
    /\ machine.providerID = last.pre.providerID

C20_Witness ==
  /\ last.op = "Update" /\ last.err = ""
  /\ machine.providerStatus # last.pre.providerStatus
  /\ RecordedID(machine) # NoString

UpdateSucceeded == last.op = "Update" /\ last.err = ""

\* The instance the last step's remote call was answered with.
FreshPayload == last.remote[1].inst

\* C21: after a successful Update the recorded address list is the list of the
\* addresses of the fresh payload, every address of every interface in order;
\* every recorded address is one the payload reports.
C21_UpdateRebuildsAddresses ==
  UpdateSucceeded =>
    /\ Len(last.remote) = 1 /\ last.remote[1].out = "payload"
    /\ machine.providerStatus.Addresses = Addresses(FreshPayload.Interfaces)
    /\ \A i \in 1..Len(machine.providerStatus.Addresses) :
         \E j \in 1..Len(FreshPayload.Interfaces) :
           \E k \in 1..Len(FreshPayload.Interfaces[j]) :
             FreshPayload.Interfaces[j][k] = machine.providerStatus.Addresses[i].Address

\* An Update after which the addresses recorded before are gone.
C21_Witness ==
  /\ UpdateSucceeded
  /\ last.pre.providerStatus.Addresses # <<>>
  /\ machine.providerStatus.Addresses = <<>>

\* C22: after a successful Update the recorded instance state is the state the
\* fresh payload carries (none when the payload carries none).
C22_UpdateOverwritesState ==
  UpdateSucceeded => machine.providerStatus.InstanceState = FreshPayload.Status

ActuatorOps == {"Create", "Exists", "Update", "Delete"}

\* C27: an Actuator operation issues at most one remote call, whatever it
\* returns; a reconcile pass issues at most one per operation it calls.
C27_OneRemoteCallPerOperation ==
  /\ last.op \in ActuatorOps => Len(last.remote) <= 1
  /\ last.op = "Reconcile" => Len(last.remote) <= Len(last.calls)

C27_Witness ==
  /\ last.op = "Create" /\ last.err = "failed to create instance"
  /\ Len(last.remote) = 1 /\ last.remote[1].out = "err"

\* C28: with a notification recorder, a Create, Update or Delete that returns
\* an error has emitted a notification.
C28_FailuresAreNotified ==
  (last.op \in {"Create", "Update", "Delete"} /\ last.recorder /\ last.err # "") =>
    last.events # <<>>

\* C29: a successful Create has issued one create call, answered with an
\* instance, then written the status, then the identity, each once, and
\* emitted at most two notifications; Create writes only after that answer and
\* the status first, and when the status write fails it writes nothing else and
\* returns an error.
C29_CreateSideEffects ==
  /\ CreateSucceeded =>
       /\ Len(last.remote) = 1
       /\ last.remote[1].call = "create" /\ last.remote[1].out = "payload"
       /\ last.writes = <<Write("status", TRUE), Write("providerID", TRUE)>>
       /\ Len(last.events) <= 2
  /\ (last.op = "Create" /\ last.writes # <<>>) =>
       /\ last.remote # <<>> /\ last.remote[1].out = "payload"
       /\ last.writes[1].what = "status"
       /\ ~last.writes[1].ok =>
            /\ Len(last.writes) = 1
            /\ last.err # ""
            /\ machine.providerID = last.pre.providerID

C29_Witness ==
  /\ CreateSucceeded /\ last.recorder
  /\ last.events = <<"Created">>
  /\ Len(last.writes) = 2

\* C30: the create request has the primary subnet as first interface, not
\* physical, then one interface per additional subnet in the order listed,
\* each with that subnet's physical flag, and phone-home enabled.
C30_CreateRequestInterfaces ==
  (last.op = "Create" /\ last.remote # <<>>) =>
    LET req == last.remote[1].req
        ps == last.pre.providerSpec
        adds == ps.AdditionalSubnetIDs
    IN
    /\ Len(req.Interfaces) = 1 + Len(adds)
    /\ req.Interfaces[1].SubnetId = UUIDParse(ps.SubnetID)
    /\ req.Interfaces[1].IsPhysical = FALSE
    /\ \A i \in 1..Len(adds) :
         /\ req.Interfaces[i + 1].SubnetId = UUIDParse(adds[i].SubnetID)
         /\ req.Interfaces[i + 1].IsPhysical = adds[i].IsPhysical
    /\ req.PhoneHomeEnabled = TRUE

C30_Witness ==
  /\ last.op = "Create" /\ last.remote # <<>>
  /\ Len(last.remote[1].req.Interfaces) = 3
  /\ last.remote[1].req.Interfaces[2].IsPhysical

NoSlash(t) == \A i \in 1..Len(t) : t[i] # "/"

\* Number of "/" in a text.
SlashCount(t) == Cardinality({i \in 1..Len(t) : t[i] = "/"})

\* The text after the last "/" (the whole text when there is none).
LastSegment(t) ==
  LET cut == {i \in 1..Len(t) : t[i] = "/"} IN
  IF cut = {} THEN t
  ELSE SubSeq(t, (CHOOSE i \in cut : \A j \in cut : j <= i) + 1, Len(t))

\* C23: decoding the encoding of a UUID and an org, tenant and site without
\* "/" succeeds and returns that org, tenant, site and UUID.
C23_RoundTrip ==
  ( /\ last.op = "decode" /\ last.from = "encoded"
    /\ NoSlash(last.prev.OrgName) /\ NoSlash(last.prev.TenantName)
    /\ NoSlash(last.prev.SiteName) ) =>
    (last.err = "" /\ last.pid = last.prev)

C23_Witness ==
  /\ last.op = "decode" /\ last.from = "encoded" /\ ~last.legacy
  /\ last.err = "" /\ last.pid = last.prev
  /\ last.pid.TenantName = <<"a">> /\ last.pid.SiteName = <<"u", "1">>
  /\ last.pid.InstanceID = 2

\* The texts decode is to accept: the prefix, then 3 or 4 segments, the last
\* one a UUID.
Decodable(t) ==
  /\ HasPrefix(t, ProviderPrefix)
  /\ LET rest == SubSeq(t, Len(ProviderPrefix) + 1, Len(t)) IN
     /\ SlashCount(rest) \in {2, 3}
     /\ IsUUID(LastSegment(rest))

\* C24: decode succeeds on exactly the texts that start with nvidia-bmm://,
\* go on with 3 or 4 segments and end in a UUID.
C24_DecodeAcceptsExactly ==
  last.op = "decode" => (last.err = "" <=> Decodable(last.text))

\* A text of five segments, the last one a UUID, rejected.
C24_Witness ==
  /\ last.op = "decode" /\ last.err # ""
  /\ HasPrefix(last.text, ProviderPrefix)
  /\ SlashCount(last.text) = 6
  /\ IsUUID(LastSegment(last.text))

\* C25: decoding nvidia-bmm://<org>/<site>/<uuid> succeeds with an empty
\* tenant and that org, site and UUID.
C25_LegacyDecode ==
  \A o \in CodecSegments, n \in CodecSegments, u \in {x \in CodecSegments : IsUUID(x)} :
    (last.op = "decode" /\ last.text = ProviderPrefix \o o \o Slash \o n \o Slash \o u) =>
      /\ last.err = ""
      /\ last.pid = [OrgName |-> o, TenantName |-> NoString, SiteName |-> n,
                     InstanceID |-> UUIDParse(u)]

C25_Witness ==
  /\ last.op = "decode" /\ last.err = ""
  /\ last.text = ProviderPrefix \o <<"a">> \o Slash \o <<"u", "1">> \o Slash \o <<"U", "2">>
  /\ last.pid.SiteName = <<"u", "1">> /\ last.pid.TenantName = NoString

\* C26: the encoding of an identity decoded from a three-segment text has four
\* segments, and decodes to that identity.
C26_EncodeIsFourSegments ==
  /\ (last.op = "encode" /\ last.legacy) =>
       /\ last.pid.TenantName = NoString
       /\ SlashCount(TrimPrefix(last.text, ProviderPrefix)) = 3
  /\ (last.op = "decode" /\ last.from = "encoded" /\ last.legacy) =>
       (last.err = "" /\ last.pid = last.prev)

C26_Witness ==
  /\ last.op = "decode" /\ last.from = "encoded" /\ last.legacy
  /\ last.err = "" /\ last.pid = last.prev /\ last.pid.OrgName # NoString

\* A Create on a desired state with both an instance-type id and a machine id.
CreateWithBoth ==
  /\ last.op = "Create" /\ last.pre.providerSpec.found
  /\ last.pre.providerSpec.InstanceTypeID # NoString
  /\ last.pre.providerSpec.MachineID # NoString
  /\ IsUUID(last.pre.providerSpec.InstanceTypeID)
  /\ CredentialsResolved

\* C31: a desired state with both an instance-type id and a machine id is
\* accepted by Create, and the create request carries the instance-type id and
\* not the machine id.
C31_InstanceTypeFavored ==
  CreateWithBoth =>
    /\ last.remote # <<>>
    /\ last.remote[1].req.InstanceTypeId =
         <<UUIDParse(last.pre.providerSpec.InstanceTypeID)>>
    /\ last.remote[1].req.MachineId = NoString

\* C31, as the code has it: such a desired state is accepted by Create, and the
\* create request carries both the instance-type id and the machine id.
C31_BothSent ==
  CreateWithBoth =>
    /\ last.remote # <<>> /\ last.remote[1].call = "create"
    /\ last.remote[1].req.InstanceTypeId =
         <<UUIDParse(last.pre.providerSpec.InstanceTypeID)>>
    /\ last.remote[1].req.MachineId = last.pre.providerSpec.MachineID

C31_Witness ==
  /\ CreateWithBoth /\ last.err = ""
  /\ last.remote[1].req.MachineId # NoString
  /\ last.remote[1].req.InstanceTypeId # <<>>

\* C32: the status a successful Create writes lists every address of every
\* interface of the returned instance, in interface order then address order,
\* each tagged InternalIP, and nothing else.
C32_CreateRecordsAddresses ==
  CreateSucceeded =>
    LET ifs == FreshPayload.Interfaces
        ads == machine.providerStatus.Addresses
        \* number of addresses on the interfaces before interface j
        before(j) == Cardinality({<<a, b>> \in (1..Len(ifs)) \X (1..3) :
                                    a < j /\ b <= Len(ifs[a])})
    IN
    /\ \A j \in 1..Len(ifs) : Len(ifs[j]) <= 3
    /\ Len(ads) = before(Len(ifs) + 1)
    /\ \A j \in 1..Len(ifs) : \A k \in 1..Len(ifs[j]) :
         ads[before(j) + k] = [Type |-> "InternalIP", Address |-> ifs[j][k]]

C32_Witness ==
  /\ CreateSucceeded
  /\ Len(FreshPayload.Interfaces) = 3
  /\ Len(machine.providerStatus.Addresses) = 3
  /\ machine.providerStatus.Addresses[3].Address = "10.0.0.3"

\* C33: a reconcile pass for a resource that is not found calls no Actuator
\* operation, issues no remote call, writes nothing, and returns no error and
\* no re-invocation request.
C33_AbsentIsTerminal ==
  (last.op = "Reconcile" /\ last.fetch = "notfound") =>
    /\ last.calls = <<>> /\ last.remote = <<>>
    /\ last.writes = <<>> /\ last.events = <<>>
    /\ last.err = "" /\ ~last.requeue /\ last.requeueAfter = 0
    /\ ~present /\ machine = last.pre

C33_Witness ==
  /\ last.op = "Reconcile" /\ last.fetch = "notfound"
  /\ ~present /\ last.err = ""

\* C35: when status.providerStatus.instanceId is recorded, spec.providerID is
\* set and ends in that instance id.
C35_IdentityAgreesWithStatus ==
  RecordedID(machine) # NoString =>
    /\ machine.providerID # NoString
    /\ LastSegment(machine.providerID) = RecordedID(machine)

\* C36: a deletion request stays, and a reconcile pass on a resource whose
\* deletion is requested calls Delete and no other operation, issues no remote
\* call but delete-instance, and does not attach the finalizer.
C36_DeletionPassOnlyDeletes ==
  /\ last.pre.deletionRequested => machine.deletionRequested
  /\ DeletePass =>
       /\ last.calls = <<"Delete">>
       /\ \A i \in 1..Len(last.remote) : last.remote[i].call = "delete"
       /\ ~(machine.finalizer /\ ~last.pre.finalizer)
       /\ \A i \in 1..Len(last.writes) : last.writes[i].what = "finalizer"
       /\ machine.providerStatus = last.pre.providerStatus

\* A deletion pass on a resource with a recorded instance.
C36_Witness ==
  /\ DeletePass /\ RecordedID(last.pre) # NoString
  /\ last.calls = <<"Delete">>
  /\ \A i \in 1..Len(last.remote) : last.remote[i].call = "delete"

\* C37: in a pass on a present resource with the finalizer and no deletion
\* request, an error of Exists ends the pass with neither Create nor Update
\* called; an error of Create or Update is the error the pass returns; a pass
\* that returns an error leaves the finalizer attached; and no operation is
\* called twice.
C37_ActuatorFailureStopsPass ==
  (NormalPass /\ last.pre.finalizer) =>
    /\ Len(last.calls) \in {1, 2} /\ last.calls[1] = "Exists"
    /\ Len(last.calls) = 2 => last.calls[2] \in {"Create", "Update"}
    /\ last.errs[1] # "" => (last.calls = <<"Exists">> /\ last.err = last.errs[1])
    /\ (Len(last.calls) = 2 /\ last.errs[2] # "") => last.err = last.errs[2]
    /\ last.err # "" => (present /\ machine.finalizer)
    /\ Len(last.remote) <= Len(last.calls)

C37_Witness ==
  /\ NormalPass /\ last.pre.finalizer
  /\ last.calls = <<"Exists">> /\ last.err # "" /\ last.err = last.errs[1]
  /\ machine.finalizer /\ last.requeueAfter = RequeueAfterSeconds

====
